---- MODULE Spec2Model ----
(***************************************************************************)
(* Home Detox Navigator (src/app/page.tsx): the Home component's record    *)
(* store (clients, entries, selectedClientId), its form inputs, the two    *)
(* effects that load and save the localStorage blob, and the derived views *)
(* (current client, timeline, summary text, CIWA chip).                    *)
(*                                                                         *)
(* JavaScript values are records tagged with their type; a text is a       *)
(* sequence of one-character strings; an object is a function from its own *)
(* keys to values; an array is a sequence.  A number is kept in hundredths *)
(* (16 is Num(1600), 9.99 is Num(999)), beside Infinity, -Infinity and NaN.*)
(***************************************************************************)
EXTENDS Integers, Sequences, FiniteSets, TLC

VARIABLES
  clients,           \* useState<Client[]>            (page.tsx:24)
  entries,           \* useState<Entry[]>             (page.tsx:25)
  selectedClientId,  \* useState<string>              (page.tsx:26)
  newClientName,     \* form input                    (page.tsx:28)
  bp, hr, ciwa, meds, notes,  \* form inputs          (page.tsx:29-33)
  storage,           \* window.localStorage[STORAGE_KEY]
  queue,             \* state updates the load effect has queued for the next render
  pc,                \* where React is: "load", "save", "render" or "idle"
  uuids,             \* how many ids crypto.randomUUID has handed out
  last               \* the last handler that ran, with what it read and made

vars == <<clients, entries, selectedClientId, newClientName, bp, hr, ciwa, meds,
          notes, storage, queue, pc, uuids, last>>

(***************************************************************************)
(* Bound of the model: the ids crypto.randomUUID hands out, one for every   *)
(* client and every entry ever made.                                       *)
(***************************************************************************)
MaxUuids == 3

(***************************************************************************)
(* JavaScript values.                                                      *)
(***************************************************************************)
Undefined == [t |-> "undefined"]
Null == [t |-> "null"]
Num(n) == [t |-> "number", n |-> n]
PosInf == [t |-> "number", inf |-> 1]
NegInf == [t |-> "number", inf |-> -1]
NaN == [t |-> "number", nan |-> TRUE]
Str(s) == [t |-> "string", s |-> s]
Arr(a) == [t |-> "array", a |-> a]

IsUndefined(v) == v = Undefined
IsNull(v) == v = Null
IsString(v) == v.t = "string"
IsNumber(v) == v.t = "number"
IsFinite(v) == IsNumber(v) /\ "n" \in DOMAIN v
IsNaNValue(v) == v = NaN

\* ToBoolean: undefined, null, "", 0 and NaN are falsy; arrays and objects are truthy.
Truthy(v) ==
  CASE v.t = "undefined" -> FALSE
    [] v.t = "null" -> FALSE
    [] v.t = "string" -> v.s # <<>>
    [] v.t = "number" -> IF IsFinite(v) THEN v.n # 0 ELSE ~IsNaNValue(v)
    [] OTHER -> TRUE

\* o.k: the value of an own key, undefined when the object has no such key.
Get(o, k) == IF k \in DOMAIN o THEN o[k] ELSE Undefined

(***************************************************************************)
(* Texts.                                                                  *)
(***************************************************************************)
Digits == <<"0", "1", "2", "3", "4", "5", "6", "7", "8", "9">>
DigitChars == {Digits[i] : i \in 1..10}
DigitValue(c) == (CHOOSE i \in 1..10 : Digits[i] = c) - 1
WhiteSpace == {" ", "\t", "\n"}

RECURSIVE TrimStart(_)
TrimStart(s) ==
  IF s # <<>> /\ Head(s) \in WhiteSpace THEN TrimStart(Tail(s)) ELSE s

RECURSIVE TrimEnd(_)
TrimEnd(s) ==
  IF s # <<>> /\ s[Len(s)] \in WhiteSpace THEN TrimEnd(SubSeq(s, 1, Len(s) - 1)) ELSE s

\* String.prototype.trim
Trim(s) == TrimEnd(TrimStart(s))

AllDigits(s) == \A i \in 1..Len(s) : s[i] \in DigitChars

RECURSIVE DigitsValue(_)
DigitsValue(s) ==
  IF s = <<>> THEN 0 ELSE 10 * DigitsValue(SubSeq(s, 1, Len(s) - 1)) + DigitValue(s[Len(s)])

RECURSIVE NatToText(_)
NatToText(n) ==
  IF n < 10 THEN <<Digits[n + 1]>> ELSE NatToText(n \div 10) \o <<Digits[(n % 10) + 1]>>

TwoDigits(n) == <<Digits[(n \div 10) + 1], Digits[(n % 10) + 1]>>
ThreeDigits(n) == <<Digits[(n \div 100) + 1]>> \o TwoDigits(n % 100)

\* s.includes(needle)
Contains(s, needle) ==
  \E i \in 0..(Len(s) - Len(needle)) : SubSeq(s, i + 1, i + Len(needle)) = needle

RECURSIVE Join(_, _)
Join(parts, sep) ==
  IF parts = <<>> THEN <<>>
  ELSE IF Len(parts) = 1 THEN parts[1]
  ELSE parts[1] \o sep \o Join(Tail(parts), sep)

Reverse(a) == [i \in 1..Len(a) |-> a[Len(a) + 1 - i]]

(***************************************************************************)
(* Number(text) and the text of a number (page.tsx:78-80, 139).            *)
(* The texts of the model are written with the characters of TextChars,    *)
(* which has no exponent marker and no 0x/0o/0b prefix, and carry at most  *)
(* two fraction digits, so a finite value is exact in hundredths.          *)
(***************************************************************************)
InfinityText == <<"I", "n", "f", "i", "n", "i", "t", "y">>

IndexOfDot(s) == IF \E i \in 1..Len(s) : s[i] = "."
                 THEN CHOOSE i \in 1..Len(s) : s[i] = "." /\ \A j \in 1..(i - 1) : s[j] # "."
                 ELSE 0

\* StrUnsignedDecimalLiteral without ExponentPart: digits, digits. , digits.digits , .digits
IsUnsignedDecimal(s) ==
  LET d == IndexOfDot(s) IN
    IF d = 0 THEN s # <<>> /\ AllDigits(s)
    ELSE LET ip == SubSeq(s, 1, d - 1)
             fp == SubSeq(s, d + 1, Len(s))
         IN AllDigits(ip) /\ AllDigits(fp) /\ (ip # <<>> \/ fp # <<>>)

\* the value, in hundredths, of an unsigned decimal literal
UnsignedDecimalValue(s) ==
  LET d == IndexOfDot(s)
      ip == IF d = 0 THEN s ELSE SubSeq(s, 1, d - 1)
      fp == IF d = 0 THEN <<>> ELSE SubSeq(s, d + 1, Len(s))
      f2 == SubSeq(fp \o <<"0", "0">>, 1, 2)
  IN DigitsValue(ip) * 100 + DigitsValue(f2)

\* Number(s) for a string s: StringToNumber
StringToNumber(s) ==
  LET t == Trim(s)
      signed == t # <<>> /\ Head(t) \in {"+", "-"}
      sign == IF signed /\ Head(t) = "-" THEN -1 ELSE 1
      body == IF signed THEN Tail(t) ELSE t
  IN IF t = <<>> THEN Num(0)
     ELSE IF body = InfinityText THEN (IF sign = 1 THEN PosInf ELSE NegInf)
     ELSE IF IsUnsignedDecimal(body) THEN Num(sign * UnsignedDecimalValue(body))
     ELSE NaN

\* Number::toString, as a template literal `${n}` renders a number
NumberToString(v) ==
  IF IsNaNValue(v) THEN <<"N", "a", "N">>
  ELSE IF ~IsFinite(v) THEN (IF v.inf = 1 THEN InfinityText ELSE <<"-">> \o InfinityText)
  ELSE LET a == IF v.n < 0 THEN 0 - v.n ELSE v.n
           f == a % 100
           frac == IF f = 0 THEN <<>>
                   ELSE IF f % 10 = 0 THEN <<".", Digits[(f \div 10) + 1]>>
                   ELSE <<".">> \o TwoDigits(f)
       IN (IF v.n < 0 THEN <<"-">> ELSE <<>>) \o NatToText(a \div 100) \o frac

(***************************************************************************)
(* Dates (page.tsx:85, 107, 110-117).  An instant is a number of            *)
(* milliseconds since the epoch, within the first day of 1970; the locale  *)
(* of toLocaleDateString / toLocaleTimeString is en-US, the time zone UTC. *)
(***************************************************************************)
IsoDatePrefix == <<"1", "9", "7", "0", "-", "0", "1", "-", "0", "1", "T">>

\* Date.prototype.toISOString: YYYY-MM-DDTHH:mm:ss.sssZ
ToISOString(ms) ==
  IsoDatePrefix \o TwoDigits(ms \div 3600000) \o <<":">>
    \o TwoDigits((ms \div 60000) % 60) \o <<":">>
    \o TwoDigits((ms \div 1000) % 60) \o <<".">>
    \o ThreeDigits(ms % 1000) \o <<"Z">>

IsIsoText(s) ==
  /\ Len(s) = 24
  /\ SubSeq(s, 1, 11) = IsoDatePrefix
  /\ AllDigits(SubSeq(s, 12, 13)) /\ s[14] = ":"
  /\ AllDigits(SubSeq(s, 15, 16)) /\ s[17] = ":"
  /\ AllDigits(SubSeq(s, 18, 19)) /\ s[20] = "."
  /\ AllDigits(SubSeq(s, 21, 23)) /\ s[24] = "Z"

\* new Date(iso).getTime(): the milliseconds, or NaN for what is no date text
GetTime(v) ==
  IF IsString(v) /\ IsIsoText(v.s)
  THEN Num(100 * (DigitsValue(SubSeq(v.s, 12, 13)) * 3600000
                  + DigitsValue(SubSeq(v.s, 15, 16)) * 60000
                  + DigitsValue(SubSeq(v.s, 18, 19)) * 1000
                  + DigitsValue(SubSeq(v.s, 21, 23))))
  ELSE NaN

InvalidDateText == <<"I", "n", "v", "a", "l", "i", "d", " ", "D", "a", "t", "e">>

\* a formatTime that shows the seconds too
formatTime_WithSeconds(iso) ==
  LET g == GetTime(iso)
      ms == g.n \div 100
      h24 == ms \div 3600000
      h12 == IF h24 % 12 = 0 THEN 12 ELSE h24 % 12
  IN IF ~IsFinite(g) THEN InvalidDateText \o <<" ">> \o InvalidDateText
     ELSE <<"1", "/", "1", "/", "1", "9", "7", "0">> \o <<" ">>
          \o TwoDigits(h12) \o <<":">> \o TwoDigits((ms \div 60000) % 60)
          \o <<":">> \o TwoDigits((ms \div 1000) % 60)
          \o <<" ">> \o (IF h24 < 12 THEN <<"A", "M">> ELSE <<"P", "M">>)

\* formatTime (page.tsx:110-117): local date, a space, local hour:minute
formatTime(iso) ==
  LET g == GetTime(iso)
      ms == g.n \div 100
      h24 == ms \div 3600000
      h12 == IF h24 % 12 = 0 THEN 12 ELSE h24 % 12
  IN IF ~IsFinite(g) THEN InvalidDateText \o <<" ">> \o InvalidDateText
     ELSE <<"1", "/", "1", "/", "1", "9", "7", "0">> \o <<" ">>
          \o TwoDigits(h12) \o <<":">> \o TwoDigits((ms \div 60000) % 60)
          \o <<" ">> \o (IF h24 < 12 THEN <<"A", "M">> ELSE <<"P", "M">>)

(***************************************************************************)
(* JSON (page.tsx:40, 56).  A JSON document is kept as the value it        *)
(* denotes.  JSON.stringify leaves out the keys of an object whose value   *)
(* is undefined and writes a number that is not finite, and an undefined   *)
(* array element, as null.                                                 *)
(***************************************************************************)
Obj(f) == [t |-> "object", o |-> f]

RECURSIVE JSONStringify(_)
JSONStringify(v) ==
  CASE v.t = "number" -> IF IsFinite(v) THEN v ELSE Null
    [] v.t = "array" ->
         Arr([i \in 1..Len(v.a) |->
                IF IsUndefined(v.a[i]) THEN Null ELSE JSONStringify(v.a[i])])
    [] v.t = "object" ->
         Obj([k \in {x \in DOMAIN v.o : ~IsUndefined(v.o[x])} |-> JSONStringify(v.o[k])])
    [] OTHER -> v

\* JSON.parse of a document written by JSON.stringify
JSONParse(doc) == doc

\* o.k on any value: an own key of an object, undefined otherwise
Prop(v, k) == IF v.t = "object" THEN Get(v.o, k) ELSE Undefined

(***************************************************************************)
(* The component: defaults, derived values and views.                      *)
(***************************************************************************)
EmptyText == <<>>

\* crypto.randomUUID(): the k-th id handed out; ids never repeat
randomUUID(k) == Str(<<"#">> \o NatToText(k))

\* the clock readings new Date() gives in the model, in milliseconds since
\* the epoch: 00:00:00 and 00:01:30, in either order
Instants == {0, 90000}

\* clients.find((c) => c.id === selectedClientId)   (page.tsx:101)
Find(a, id) ==
  IF \E i \in 1..Len(a) : Prop(a[i], "id") = id
  THEN a[CHOOSE i \in 1..Len(a) :
           Prop(a[i], "id") = id /\ \A j \in 1..(i - 1) : Prop(a[j], "id") # id]
  ELSE Undefined

currentClientOf(cs, sel) == Find(cs.a, sel)
currentClient == currentClientOf(clients, selectedClientId)

\* a comparator that sorts oldest first: a's time minus b's
CompareDesc_Ascending(a, b) ==
  LET ta == GetTime(Prop(a, "timestamp"))
      tb == GetTime(Prop(b, "timestamp"))
  IN IF IsFinite(ta) /\ IsFinite(tb) THEN Num(ta.n - tb.n) ELSE NaN

\* the comparator of the timeline sort (page.tsx:106-107): b's time minus a's
CompareDesc(a, b) ==
  LET ta == GetTime(Prop(a, "timestamp"))
      tb == GetTime(Prop(b, "timestamp"))
  IN IF IsFinite(ta) /\ IsFinite(tb) THEN Num(tb.n - ta.n) ELSE NaN

\* Array.prototype.sort is stable: e goes before the first element the
\* comparator puts after it, and behind everything else already placed.
RECURSIVE InsertSorted(_, _)
InsertSorted(sorted, e) ==
  IF sorted = <<>> THEN <<e>>
  ELSE LET c == CompareDesc(Head(sorted), e)
       IN IF IsFinite(c) /\ c.n > 0
          THEN <<e>> \o sorted
          ELSE <<Head(sorted)>> \o InsertSorted(Tail(sorted), e)

RECURSIVE SortDesc(_)
SortDesc(a) ==
  IF a = <<>> THEN <<>>
  ELSE InsertSorted(SortDesc(SubSeq(a, 1, Len(a) - 1)), a[Len(a)])

\* a sort called on the state's own array: entries.sort(...), no filter
\* before it
sortReceiver_Entries(es, sel) == [fresh |-> FALSE, a |-> es.a]

\* the array the timeline sort is called on (page.tsx:103-105): the new
\* array entries.filter(...) returns
sortReceiver(es, sel) ==
  LET Mine(e) == Prop(e, "clientId") = sel
  IN [fresh |-> TRUE, a |-> SelectSeq(es.a, Mine)]

\* currentEntries (page.tsx:103-108)
currentEntriesOf(es, sel) == SortDesc(sortReceiver(es, sel).a)

\* the state's entries array once the component body has run: sort() sorts
\* its receiver in place, and the summary reverses a slice() copy of the
\* timeline (page.tsx:103-108, 125-127)
entriesAfterRender(es, sel) ==
  IF sortReceiver(es, sel).fresh THEN es ELSE Arr(SortDesc(es.a))
currentEntries == currentEntriesOf(entries, selectedClientId)

\* the text a template literal `${v}` gives
ToText(v) ==
  CASE v.t = "string" -> v.s
    [] v.t = "number" -> NumberToString(v)
    [] v.t = "null" -> <<"n", "u", "l", "l">>
    [] OTHER -> <<"u", "n", "d", "e", "f", "i", "n", "e", "d">>

BarSep == <<" ", "|", " ">>
NewLine == <<"\n">>

\* a block that tests the ciwa for truthiness: no CIWA part for a ciwa of 0
SummaryBlock_TruthyCiwa(e) ==
  LET ebp == Prop(e, "bp")
      ehr == Prop(e, "hr")
      emeds == Prop(e, "meds")
      enotes == Prop(e, "notes")
      eciwa == Prop(e, "ciwa")
      vitals == IF Truthy(ebp) \/ Truthy(ehr)
                THEN <<"V", "i", "t", "a", "l", "s", ":", " ">>
                     \o (IF Truthy(ebp) THEN <<"B", "P", " ">> \o ToText(ebp) ELSE <<>>)
                     \o (IF Truthy(ebp) /\ Truthy(ehr) THEN BarSep ELSE <<>>)
                     \o (IF Truthy(ehr) THEN <<"H", "R", " ">> \o ToText(ehr) ELSE <<>>)
                ELSE <<>>
      medsPart == IF Truthy(emeds)
                  THEN <<"M", "e", "d", "s", ":", " ">> \o ToText(emeds) ELSE <<>>
      notesPart == IF Truthy(enotes)
                   THEN <<"N", "o", "t", "e", "s", ":", " ">> \o ToText(enotes) ELSE <<>>
      ciwaPart == IF Truthy(eciwa)
                  THEN <<"C", "I", "W", "A", ":", " ">> \o ToText(eciwa) ELSE <<>>
      NonEmpty(part) == part # <<>>
      lineParts == Join(SelectSeq(<<vitals, medsPart, notesPart, ciwaPart>>, NonEmpty), BarSep)
  IN formatTime(Prop(e, "timestamp")) \o NewLine \o lineParts \o NewLine

\* one block of the summary body (page.tsx:128-143)
SummaryBlock(e) ==
  LET ebp == Prop(e, "bp")
      ehr == Prop(e, "hr")
      emeds == Prop(e, "meds")
      enotes == Prop(e, "notes")
      eciwa == Prop(e, "ciwa")
      vitals == IF Truthy(ebp) \/ Truthy(ehr)
                THEN <<"V", "i", "t", "a", "l", "s", ":", " ">>
                     \o (IF Truthy(ebp) THEN <<"B", "P", " ">> \o ToText(ebp) ELSE <<>>)
                     \o (IF Truthy(ebp) /\ Truthy(ehr) THEN BarSep ELSE <<>>)
                     \o (IF Truthy(ehr) THEN <<"H", "R", " ">> \o ToText(ehr) ELSE <<>>)
                ELSE <<>>
      medsPart == IF Truthy(emeds)
                  THEN <<"M", "e", "d", "s", ":", " ">> \o ToText(emeds) ELSE <<>>
      notesPart == IF Truthy(enotes)
                   THEN <<"N", "o", "t", "e", "s", ":", " ">> \o ToText(enotes) ELSE <<>>
      ciwaPart == IF ~IsNull(eciwa) /\ ~IsUndefined(eciwa)
                  THEN <<"C", "I", "W", "A", ":", " ">> \o ToText(eciwa) ELSE <<>>
      NonEmpty(part) == part # <<>>
      lineParts == Join(SelectSeq(<<vitals, medsPart, notesPart, ciwaPart>>, NonEmpty), BarSep)
  IN formatTime(Prop(e, "timestamp")) \o NewLine \o lineParts \o NewLine

\* a body in timeline order: the reverse() left out
summaryOrder_NotReversed(timeline) == timeline

\* the entries of the summary body, in the order it renders them (page.tsx:125-127)
summaryOrder(timeline) == Reverse(timeline)

summaryBlocks(timeline) ==
  LET o == summaryOrder(timeline) IN [i \in 1..Len(o) |-> SummaryBlock(o[i])]

summaryHeader(client, now) ==
  <<"H", "o", "m", "e", " ", "D", "e", "t", "o", "x", " ",
    "S", "u", "m", "m", "a", "r", "y">> \o NewLine
  \o <<"C", "l", "i", "e", "n", "t", ":", " ">> \o ToText(Prop(client, "name")) \o NewLine
  \o <<"G", "e", "n", "e", "r", "a", "t", "e", "d", ":", " ">>
  \o formatTime(Str(ToISOString(now))) \o NewLine \o NewLine

\* the body of the summary (page.tsx:125-144)
summaryBodyOf(es, sel) == Join(summaryBlocks(currentEntriesOf(es, sel)), NewLine)
summaryBody == summaryBodyOf(entries, selectedClientId)

\* a summary that tests the selection for emptiness, not the current client
summaryTextOf_BySelection(cs, es, sel, now) ==
  IF ~Truthy(sel) THEN <<>>
  ELSE summaryHeader(currentClientOf(cs, sel), now) \o summaryBodyOf(es, sel)

\* generateSummaryText (page.tsx:119-147) over a store, the clock reading now
summaryTextOf(cs, es, sel, now) ==
  IF IsUndefined(currentClientOf(cs, sel)) THEN <<>>
  ELSE summaryHeader(currentClientOf(cs, sel), now) \o summaryBodyOf(es, sel)

\* summaryText (page.tsx:149), rendered when the clock reads now
generateSummaryText(now) == summaryTextOf(clients, entries, selectedClientId, now)

\* x > k: the boundary value left in the lower band
NumGE_Strict(x, k) == IF IsFinite(x) THEN x.n > k * 100 ELSE (~IsNaNValue(x) /\ x.inf = 1)

\* x >= k for a number x and an integer k
NumGE(x, k) == IF IsFinite(x) THEN x.n >= k * 100 ELSE (~IsNaNValue(x) /\ x.inf = 1)

\* getCiwaChip (page.tsx:161-180): the tier of the chip, "none" for no chip
getCiwaChip(c) ==
  IF IsNull(c) \/ IsUndefined(c) THEN "none"
  ELSE IF NumGE(c, 15) THEN "escalate"
  ELSE IF NumGE(c, 10) THEN "watch"
  ELSE "normal"

(***************************************************************************)
(* The texts a user types into the form.                                   *)
(***************************************************************************)
NameTexts == {<<" ", " ">>, <<"A", " ">>}
FirstNameTexts == {<<"A", " ">>}
BpTexts == {<<"1", "3", "0", "/", "8", "0">>}
HrTexts == {<<" ", "7", "2">>}
MedsTexts == {<<"L", "z">>}
NotesTexts == {<<" ">>, <<"o", "k">>}
CiwaTexts == {<<"1", "6">>, <<" ", "9", ".", "9", "9">>, <<"-", "3">>, <<"1", "6", "x">>,
              <<" ">>, InfinityText, <<"0">>}

StoreCiwaTexts == {InfinityText}

\* a text of white space only, for the notes and the ciwa
BlankTexts == {<<" ">>}

\* ciwa texts at and around the thresholds of getCiwaChip
ThresholdCiwaTexts == {<<"9", ".", "9", "9">>, <<"1", "0">>, <<"1", "4", ".", "9", "9">>,
                       <<"1", "5">>, <<"0">>, <<"-", "3">>}

(***************************************************************************)
(* Persistence (page.tsx:35-57).                                           *)
(***************************************************************************)
NoItem == Null
Item(doc) == [t |-> "text", json |-> doc]

payloadOf(cs, es, sel) ==
  Obj([clients |-> cs, entries |-> es, selectedClientId |-> sel])

\* the text the save effect writes for a store (page.tsx:51-56)
save(cs, es, sel) == Item(JSONStringify(payloadOf(cs, es, sel)))

StoreKeys == {"clients", "entries", "selectedClientId"}

NoUpdates == [k \in {} |-> Undefined]

\* a stored text that is no JSON document
Garbage == [t |-> "text"]

\* JSON.parse(raw) returns (page.tsx:40); it throws a SyntaxError otherwise
Parses(raw) == "json" \in DOMAIN raw

\* a load that applies a blob only when it has all three fields
load_AllOrNothing(raw) ==
  IF raw = NoItem THEN NoUpdates
  ELSE IF ~Parses(raw) THEN NoUpdates
  ELSE LET parsed == JSONParse(raw.json)
       IN IF IsNull(parsed) THEN NoUpdates
          ELSE IF \A x \in StoreKeys : Truthy(Prop(parsed, x))
          THEN [k \in StoreKeys |-> Prop(parsed, k)]
          ELSE NoUpdates

\* the state updates the load effect makes for a stored item (page.tsx:36-46):
\* none when there is no item, when JSON.parse throws, or when the document
\* is null (reading parsed.clients throws a TypeError); the catch logs both
load(raw) ==
  IF raw = NoItem THEN NoUpdates
  ELSE IF ~Parses(raw) THEN NoUpdates
  ELSE LET parsed == JSONParse(raw.json)
       IN IF IsNull(parsed) THEN NoUpdates
          ELSE [k \in {x \in StoreKeys : Truthy(Prop(parsed, x))} |-> Prop(parsed, k)]

\* a state value after the queued updates
Applied(q, k, old) == IF k \in DOMAIN q THEN q[k] ELSE old

\* the component body throws a TypeError: clients.find or entries.filter is
\* no function, or a callback reads a property of null (page.tsx:101-108)
RenderThrows(cs, es) ==
  \/ cs.t # "array"
  \/ es.t # "array"
  \/ \E i \in 1..Len(cs.a) : IsNull(cs.a[i])
  \/ \E i \in 1..Len(es.a) : IsNull(es.a[i])

formVars == <<newClientName, bp, hr, ciwa, meds, notes>>
storeVars == <<clients, entries, selectedClientId>>

\* the state of the first render (page.tsx:24-33), no effect run yet
Defaults ==
  /\ clients = Arr(<<>>)
  /\ entries = Arr(<<>>)
  /\ selectedClientId = Str(EmptyText)
  /\ newClientName = EmptyText
  /\ bp = EmptyText
  /\ hr = EmptyText
  /\ ciwa = EmptyText
  /\ meds = EmptyText
  /\ notes = EmptyText
  /\ queue = NoUpdates
  /\ pc = "load"
  /\ uuids = 0
  /\ last = "mount"

Init ==
  /\ clients = Arr(<<>>)
  /\ entries = Arr(<<>>)
  /\ selectedClientId = Str(EmptyText)
  /\ newClientName = EmptyText
  /\ bp = EmptyText
  /\ hr = EmptyText
  /\ ciwa = EmptyText
  /\ meds = EmptyText
  /\ notes = EmptyText
  /\ storage = NoItem
  /\ queue = NoUpdates
  /\ pc = "load"
  /\ uuids = 0
  /\ last = "mount"

\* the load effect, run once after the first render (page.tsx:35-47)
LoadEffect ==
  /\ pc = "load"
  /\ queue' = load(storage)
  /\ pc' = "save"
  /\ UNCHANGED <<storeVars, formVars, storage, uuids, last>>

\* the save effect, run after the first render and after every render in
\* which clients, entries or selectedClientId changed (page.tsx:49-57)
SaveEffect ==
  /\ pc = "save"
  /\ storage' = save(clients, entries, selectedClientId)
  /\ pc' = IF queue = NoUpdates THEN "idle" ELSE "render"
  /\ UNCHANGED <<storeVars, formVars, queue, uuids, last>>

\* the render that applies the updates the load effect queued; the arrays of
\* a parsed blob are new objects, so the save effect runs again. An error
\* thrown by the component body is caught nowhere: the page is gone
Render ==
  /\ pc = "render"
  /\ clients' = Applied(queue, "clients", clients)
  /\ selectedClientId' = Applied(queue, "selectedClientId", selectedClientId)
  /\ entries' = LET es == Applied(queue, "entries", entries)
                IN IF RenderThrows(clients', es) THEN es
                   ELSE entriesAfterRender(es, selectedClientId')
  /\ queue' = NoUpdates
  /\ pc' = IF RenderThrows(clients', entries') THEN "crashed" ELSE "save"
  /\ UNCHANGED <<formVars, storage, uuids, last>>

(***************************************************************************)
(* The handlers (page.tsx:59-99, 202, 222, 264-289).                       *)
(***************************************************************************)
setNewClientName(text) ==
  /\ pc = "idle"
  /\ newClientName' = text
  /\ entries' = entriesAfterRender(entries, selectedClientId)
  /\ UNCHANGED <<clients, selectedClientId, bp, hr, ciwa, meds, notes, storage, queue, pc, uuids, last>>

\* the New Entry form is rendered only for a current client (page.tsx:259)
EntryFormRendered == ~IsUndefined(currentClient)

setBp(text) ==
  /\ pc = "idle" /\ EntryFormRendered
  /\ bp' = text
  /\ entries' = entriesAfterRender(entries, selectedClientId)
  /\ UNCHANGED <<clients, selectedClientId, newClientName, hr, ciwa, meds, notes, storage, queue, pc, uuids, last>>

setHr(text) ==
  /\ pc = "idle" /\ EntryFormRendered
  /\ hr' = text
  /\ entries' = entriesAfterRender(entries, selectedClientId)
  /\ UNCHANGED <<clients, selectedClientId, newClientName, bp, ciwa, meds, notes, storage, queue, pc, uuids, last>>

setCiwa(text) ==
  /\ pc = "idle" /\ EntryFormRendered
  /\ ciwa' = text
  /\ entries' = entriesAfterRender(entries, selectedClientId)
  /\ UNCHANGED <<clients, selectedClientId, newClientName, bp, hr, meds, notes, storage, queue, pc, uuids, last>>

setMeds(text) ==
  /\ pc = "idle" /\ EntryFormRendered
  /\ meds' = text
  /\ entries' = entriesAfterRender(entries, selectedClientId)
  /\ UNCHANGED <<clients, selectedClientId, newClientName, bp, hr, ciwa, notes, storage, queue, pc, uuids, last>>

setNotes(text) ==
  /\ pc = "idle" /\ EntryFormRendered
  /\ notes' = text
  /\ entries' = entriesAfterRender(entries, selectedClientId)
  /\ UNCHANGED <<clients, selectedClientId, newClientName, bp, hr, ciwa, meds, storage, queue, pc, uuids, last>>

\* a name taken as typed: the trim() left out
clientName_Untrimmed(text) == text

\* the value of the new client's name (page.tsx:60)
clientName(text) == Trim(text)

\* an addClient that tests the input before trimming it
addClient_RawGuard ==
  /\ pc = "idle"
  /\ last' = IF newClientName = EmptyText THEN "addClient.ignored" ELSE "addClient"
  /\ LET name == clientName(newClientName)
         client == Obj([id |-> randomUUID(uuids), name |-> Str(name)])
     IN IF newClientName = EmptyText
        THEN UNCHANGED <<storeVars, formVars, storage, queue, pc, uuids>>
        ELSE /\ clients' = Arr(Append(clients.a, client))
             /\ selectedClientId' = Prop(client, "id")
             /\ newClientName' = EmptyText
             /\ uuids' = uuids + 1
             /\ pc' = "save"
             /\ entries' = entriesAfterRender(entries, selectedClientId')
             /\ UNCHANGED <<bp, hr, ciwa, meds, notes, storage, queue>>

\* addClient (page.tsx:59-69)
addClient ==
  /\ pc = "idle"
  /\ last' = IF clientName(newClientName) = EmptyText THEN "addClient.ignored" ELSE "addClient"
  /\ LET name == clientName(newClientName)
         client == Obj([id |-> randomUUID(uuids), name |-> Str(name)])
     IN IF name = EmptyText
        THEN UNCHANGED <<storeVars, formVars, storage, queue, pc, uuids>>
        ELSE /\ clients' = Arr(Append(clients.a, client))
             /\ selectedClientId' = Prop(client, "id")
             /\ newClientName' = EmptyText
             /\ uuids' = uuids + 1
             /\ pc' = "save"
             /\ entries' = entriesAfterRender(entries, selectedClientId')
             /\ UNCHANGED <<bp, hr, ciwa, meds, notes, storage, queue>>

\* a ciwa whose isNaN branches are swapped
ciwaNum_Swapped(text) ==
  LET ciwaTrimmed == Trim(text)
  IN IF ciwaTrimmed = EmptyText THEN Null
     ELSE IF IsNaNValue(StringToNumber(ciwaTrimmed)) THEN StringToNumber(ciwaTrimmed)
     ELSE Null

\* a ciwa that tests the text for emptiness before trimming it
ciwaNum_NoTrim(text) ==
  IF text = EmptyText THEN Null
  ELSE IF IsNaNValue(StringToNumber(text)) THEN Null
  ELSE StringToNumber(text)

\* the ciwa of a new entry (page.tsx:74-80)
ciwaNum(text) ==
  LET ciwaTrimmed == Trim(text)
  IN IF ciwaTrimmed = EmptyText THEN Null
     ELSE IF IsNaNValue(StringToNumber(ciwaTrimmed)) THEN Null
     ELSE StringToNumber(ciwaTrimmed)

\* text.trim(), the || undefined left out
optionalText_KeepsEmpty(text) == Str(Trim(text))

\* text.trim() || undefined (page.tsx:86-90)
optionalText(text) == IF Trim(text) = EmptyText THEN Undefined ELSE Str(Trim(text))

\* an entry that takes its own id for its clientId
newEntry_OwnId(id, now) ==
  Obj([id |-> id,
       clientId |-> id,
       timestamp |-> Str(ToISOString(now)),
       bp |-> optionalText(bp),
       hr |-> optionalText(hr),
       ciwa |-> ciwaNum(ciwa),
       meds |-> optionalText(meds),
       notes |-> optionalText(notes)])

\* the entry addEntry builds (page.tsx:82-91)
newEntry(id, now) ==
  Obj([id |-> id,
       clientId |-> selectedClientId,
       timestamp |-> Str(ToISOString(now)),
       bp |-> optionalText(bp),
       hr |-> optionalText(hr),
       ciwa |-> ciwaNum(ciwa),
       meds |-> optionalText(meds),
       notes |-> optionalText(notes)])

\* setEntries([entry]): the earlier entries dropped
withEntry_Alone(prev, entry) == <<entry>>

\* setEntries((prev) => [entry, ...prev]) (page.tsx:93)
withEntry(prev, entry) == <<entry>> \o prev

\* addEntry (page.tsx:71-99), the clock reading now
addEntry(now) ==
  /\ pc = "idle"
  /\ last' = IF ~Truthy(selectedClientId) THEN "addEntry.ignored" ELSE "addEntry"
  /\ IF ~Truthy(selectedClientId)
     THEN UNCHANGED <<storeVars, formVars, storage, queue, pc, uuids>>
     ELSE /\ entries' = entriesAfterRender(
                         Arr(withEntry(entries.a, newEntry(randomUUID(uuids), now))),
                         selectedClientId)
          /\ bp' = EmptyText
          /\ hr' = EmptyText
          /\ ciwa' = EmptyText
          /\ meds' = EmptyText
          /\ notes' = EmptyText
          /\ uuids' = uuids + 1
          /\ pc' = "save"
          /\ UNCHANGED <<clients, selectedClientId, newClientName, storage, queue>>

\* the Save Entry button (page.tsx:294-300): in the form, disabled without a selection
ClickSaveEntry(now) ==
  /\ EntryFormRendered
  /\ Truthy(selectedClientId)
  /\ addEntry(now)

\* a selection the save effect does not depend on
selectClient_NoSave(i) ==
  /\ pc = "idle"
  /\ i \in 1..Len(clients.a)
  /\ last' = "selectClient"
  /\ selectedClientId' = Prop(clients.a[i], "id")
  /\ entries' = IF selectedClientId' = selectedClientId THEN entries
                ELSE entriesAfterRender(entries, selectedClientId')
  /\ UNCHANGED <<clients, formVars, storage, queue, pc, uuids>>

\* a click on the i-th client button (page.tsx:219-222); selecting the
\* selected client again changes no state and runs no effect
selectClient(i) ==
  /\ pc = "idle"
  /\ i \in 1..Len(clients.a)
  /\ last' = "selectClient"
  /\ selectedClientId' = Prop(clients.a[i], "id")
  /\ pc' = IF selectedClientId' = selectedClientId THEN "idle" ELSE "save"
  /\ entries' = IF selectedClientId' = selectedClientId THEN entries
                ELSE entriesAfterRender(entries, selectedClientId')
  /\ UNCHANGED <<clients, formVars, storage, queue, uuids>>

\* the page is closed and opened again: the state is the defaults, the
\* storage is what it was
Reload ==
  /\ pc = "idle"
  /\ clients' = Arr(<<>>)
  /\ entries' = Arr(<<>>)
  /\ selectedClientId' = Str(EmptyText)
  /\ newClientName' = EmptyText
  /\ bp' = EmptyText
  /\ hr' = EmptyText
  /\ ciwa' = EmptyText
  /\ meds' = EmptyText
  /\ notes' = EmptyText
  /\ queue' = NoUpdates
  /\ pc' = "load"
  /\ last' = "mount"
  /\ UNCHANGED <<storage, uuids>>

\* the store over several sessions; the user types a name, a bp and a ciwa
\* (the text Infinity)
Next ==
  \/ LoadEffect
  \/ SaveEffect
  \/ Render
  \/ \E text \in NameTexts : setNewClientName(text)
  \/ \E text \in BpTexts : setBp(text)
  \/ \E text \in StoreCiwaTexts : setCiwa(text)
  \/ ((uuids < MaxUuids \/ Trim(newClientName) = EmptyText) /\ addClient)
  \/ (uuids < MaxUuids /\ \E now \in Instants : ClickSaveEntry(now))
  \/ \E i \in 1..Len(clients.a) : selectClient(i)
  \/ Reload

Spec == Init /\ [][Next]_vars

\* the save effect when localStorage.setItem throws (the quota is exceeded,
\* the storage is denied): the effect has no try, the error is caught
\* nowhere and the page is gone (page.tsx:49-57)
SaveEffectThrows ==
  /\ pc = "save"
  /\ pc' = "crashed"
  /\ last' = "setItem.throws"
  /\ UNCHANGED <<storeVars, formVars, storage, queue, uuids>>

\* the sessions of Spec over a storage whose writes may fail
NextWriteFails ==
  \/ Next
  \/ SaveEffectThrows

SpecWriteFails == Init /\ [][NextWriteFails]_vars

\* one session from an empty storage up to its first client and first entry;
\* the user types into every field
NextFirstEntry ==
  \/ LoadEffect
  \/ SaveEffect
  \/ \E text \in FirstNameTexts : setNewClientName(text)
  \/ \E text \in BpTexts : setBp(text)
  \/ \E text \in HrTexts : setHr(text)
  \/ \E text \in CiwaTexts : setCiwa(text)
  \/ \E text \in MedsTexts : setMeds(text)
  \/ \E text \in NotesTexts : setNotes(text)
  \/ (clients.a = <<>> /\ addClient)
  \/ (entries.a = <<>> /\ \E now \in Instants : ClickSaveEntry(now))

SpecFirstEntry == Init /\ [][NextFirstEntry]_vars

\* one session up to its first client and first entry; the user types a name
\* and a ciwa at or around a threshold of the chip
NextChip ==
  \/ LoadEffect
  \/ SaveEffect
  \/ \E text \in FirstNameTexts : setNewClientName(text)
  \/ \E text \in ThresholdCiwaTexts : setCiwa(text)
  \/ (clients.a = <<>> /\ addClient)
  \/ (entries.a = <<>> /\ \E now \in Instants : ClickSaveEntry(now))

SpecChip == Init /\ [][NextChip]_vars

\* one session with one client and several entries; the user types into every
\* field of the entry form (blanks into notes and ciwa), and addEntry is also
\* called with nothing selected, where the page renders no button for it
NextAddEntry ==
  \/ LoadEffect
  \/ SaveEffect
  \/ \E text \in FirstNameTexts : setNewClientName(text)
  \/ \E text \in BpTexts : setBp(text)
  \/ \E text \in HrTexts : setHr(text)
  \/ \E text \in BlankTexts : setCiwa(text)
  \/ \E text \in MedsTexts : setMeds(text)
  \/ \E text \in BlankTexts : setNotes(text)
  \/ (clients.a = <<>> /\ addClient)
  \/ (uuids < MaxUuids /\ \E now \in Instants : ClickSaveEntry(now))
  \/ (~Truthy(selectedClientId) /\ \E now \in Instants : addEntry(now))

SpecAddEntry == Init /\ [][NextAddEntry]_vars

\* items another program, an older version or a user has left under the key
ForeignClient == Obj([id |-> Str(<<"c", "9">>), name |-> Str(<<"B">>)])
ForeignEntry ==
  Obj([id |-> Str(<<"e", "9">>), clientId |-> Str(<<"c", "9">>),
       timestamp |-> Str(ToISOString(0)), ciwa |-> Null])
ForeignItems ==
  { Garbage,
    Item(Null),
    Item(Num(700)),
    Item(Obj([clients |-> Arr(<<ForeignClient>>)])),
    Item(Obj([clients |-> Arr(<<ForeignClient>>),
              selectedClientId |-> Prop(ForeignClient, "id")])),
    Item(Obj([entries |-> Arr(<<ForeignEntry>>),
              selectedClientId |-> Prop(ForeignClient, "id")])),
    Item(Obj([clients |-> Arr(<<ForeignClient>>), entries |-> Arr(<<ForeignEntry>>),
              selectedClientId |-> Prop(ForeignClient, "id")])),
    Item(Obj([clients |-> Arr(<<ForeignClient>>), entries |-> Null,
              selectedClientId |-> Prop(ForeignClient, "id")])),
    Item(Obj([clients |-> Str(<<"x">>)])),
    Item(Obj([clients |-> Arr(<<ForeignClient>>), entries |-> Num(100)])),
    Item(Obj([clients |-> Arr(<<Null>>)])) }

InitForeign == Defaults /\ storage \in ForeignItems

\* one session that starts on a foreign item
NextForeign ==
  \/ LoadEffect
  \/ SaveEffect
  \/ Render
  \/ \E text \in FirstNameTexts : setNewClientName(text)
  \/ (pc = "idle" /\ \E text \in BpTexts : setBp(text))
  \/ ((uuids < MaxUuids \/ Trim(newClientName) = EmptyText) /\ addClient)
  \/ (pc = "idle" /\ uuids < MaxUuids /\ \E now \in Instants : ClickSaveEntry(now))
  \/ (pc = "idle" /\ \E i \in 1..Len(clients.a) : selectClient(i))

SpecForeign == InitForeign /\ [][NextForeign]_vars

(***************************************************************************)
(* What is observable of a store.                                          *)
(***************************************************************************)
ClientKeys == {"id", "name"}
EntryKeys == {"id", "clientId", "timestamp", "bp", "hr", "ciwa", "meds", "notes"}

\* two arrays of objects with the same length and, element by element, the
\* same value (or the same absence) under every key of keys
SameRecords(x, y, keys) ==
  /\ x.t = "array" /\ y.t = "array"
  /\ Len(x.a) = Len(y.a)
  /\ \A i \in 1..Len(x.a) : \A k \in keys : Prop(x.a[i], k) = Prop(y.a[i], k)

\* the store a fresh session holds once it has applied the stored item raw
LoadedClients(raw) == Applied(load(raw), "clients", Arr(<<>>))
LoadedEntries(raw) == Applied(load(raw), "entries", Arr(<<>>))
LoadedSelected(raw) == Applied(load(raw), "selectedClientId", Str(EmptyText))

\* C1: load(save(store)) from a fresh default store gives the same clients
\* in the same order, the same entries in the same order with the same
\* bp, hr, meds, notes (or their absence) and the same ciwa (null apart
\* from a number), and the same selectedClientId.
C1_RoundTrip ==
  LET raw == save(clients, entries, selectedClientId)
  IN /\ SameRecords(LoadedClients(raw), clients, ClientKeys)
     /\ SameRecords(LoadedEntries(raw), entries, EntryKeys)
     /\ LoadedSelected(raw) = selectedClientId

\* C2: once the save step that follows a mutation has run (no effect is
\* pending), the stored item is the serialization of the current clients,
\* entries and selectedClientId, all three of the same state.
C2_SaveMirrorsStore ==
  pc = "idle" =>
    /\ storage # NoItem
    /\ Prop(storage.json, "clients") = JSONStringify(clients)
    /\ Prop(storage.json, "entries") = JSONStringify(entries)
    /\ Prop(storage.json, "selectedClientId") = selectedClientId
    /\ DOMAIN storage.json.o = StoreKeys

\* C2 witness: the save step has run after an addClient, an addEntry and a
\* selectClient that changed the selection.
C2_Witness ==
  /\ pc = "idle"
  /\ last = "selectClient"
  /\ Len(clients.a) = 2
  /\ Len(entries.a) >= 1
  /\ selectedClientId = Prop(clients.a[1], "id")
  /\ Prop(storage.json, "selectedClientId") = Prop(clients.a[1], "id")
  /\ Len(Prop(storage.json, "entries").a) = Len(entries.a)

\* C3: addClient with a name that is not empty once trimmed appends exactly
\* one client, named by the trimmed input, at the end of clients and selects
\* it; the clients before it and all entries stay as they were.
C3_AddClientAppendsAndSelects ==
  [][(addClient /\ Trim(newClientName) # EmptyText) =>
       /\ Len(clients'.a) = Len(clients.a) + 1
       /\ SubSeq(clients'.a, 1, Len(clients.a)) = clients.a
       /\ Prop(clients'.a[Len(clients'.a)], "name") = Str(Trim(newClientName))
       /\ selectedClientId' = Prop(clients'.a[Len(clients'.a)], "id")
       /\ \A i \in 1..Len(clients.a) :
            Prop(clients.a[i], "id") # Prop(clients'.a[Len(clients'.a)], "id")
       /\ entries' = entries]_vars

\* C3 witness: addClient has added a second client, named A from the input "A ".
C3_Witness ==
  /\ last = "addClient" /\ pc = "save"
  /\ Len(clients.a) = 2
  /\ Prop(clients.a[2], "name") = Str(<<"A">>)
  /\ selectedClientId = Prop(clients.a[2], "id")
  /\ Len(entries.a) >= 1

\* C4: addClient with an empty or whitespace-only name changes neither
\* clients, entries nor selectedClientId, and nothing else happens (no
\* effect is scheduled, the input stays).
C4_AddClientIgnoresBlank ==
  [][(addClient /\ Trim(newClientName) = EmptyText) =>
       /\ UNCHANGED storeVars
       /\ UNCHANGED <<formVars, storage, pc>>]_vars

\* C4 witness: addClient has run on a whitespace-only name with a client,
\* an entry and a selection in the store.
C4_Witness ==
  /\ last = "addClient.ignored"
  /\ newClientName = <<" ", " ">>
  /\ Len(clients.a) >= 1 /\ Len(entries.a) >= 1
  /\ Truthy(selectedClientId)

\* C5: every stored entry's clientId is the id of a client of the store.
C5_EntriesReferToClients ==
  \A i \in 1..Len(entries.a) :
    \E j \in 1..Len(clients.a) :
      Prop(entries.a[i], "clientId") = Prop(clients.a[j], "id")

\* C5 witness: a session has loaded two clients and an entry of the first,
\* the second selected.
C5_Witness ==
  /\ last = "mount" /\ pc = "idle"
  /\ Len(clients.a) = 2
  /\ Len(entries.a) = 1
  /\ Prop(entries.a[1], "clientId") = Prop(clients.a[1], "id")
  /\ selectedClientId = Prop(clients.a[2], "id")

IsPrefix(x, y) == Len(x) <= Len(y) /\ SubSeq(y, 1, Len(x)) = x
IsSuffix(x, y) == Len(x) <= Len(y) /\ SubSeq(y, Len(y) - Len(x) + 1, Len(y)) = x

\* C6: within a session no step removes or rewrites a client or an entry:
\* the clients stay, with their values and order, at the front of clients,
\* and the entries at the back of entries.
C6_AppendOnly ==
  [][~(pc = "idle" /\ pc' = "load") =>
       /\ IsPrefix(clients.a, clients'.a)
       /\ IsSuffix(entries.a, entries'.a)]_vars

\* C6 witness: an entry has been put before an earlier one.
C6_Witness ==
  /\ last = "addEntry" /\ pc = "save"
  /\ Len(entries.a) = 2
  /\ Len(clients.a) = 1

TimeOf(e) == GetTime(Prop(e, "timestamp")).n

\* C7: the timeline of the selected client holds exactly the stored entries
\* of that client, each once, ordered by non-increasing timestamp.
C7_TimelineExactAndSorted ==
  LET tl == currentEntries
      Mine(e) == Prop(e, "clientId") = selectedClientId
      mine == SelectSeq(entries.a, Mine)
  IN /\ Len(tl) = Len(mine)
     /\ \A i \in 1..Len(mine) : \E j \in 1..Len(tl) : tl[j] = mine[i]
     /\ \A i \in 1..Len(tl) : \E j \in 1..Len(mine) : mine[j] = tl[i]
     /\ \A i, j \in 1..Len(tl) : i # j => tl[i] # tl[j]
     /\ \A i, j \in 1..Len(tl) : i < j => TimeOf(tl[i]) >= TimeOf(tl[j])

\* C7 witness: the sort has moved the later-stored, older entry behind the
\* earlier-stored, newer one.
C7_Witness ==
  /\ pc = "idle"
  /\ Len(entries.a) = 2
  /\ Len(currentEntries) = 2
  /\ currentEntries[1] = entries.a[2]
  /\ TimeOf(entries.a[2]) > TimeOf(entries.a[1])

\* the body that renders a timeline from its last entry to its first
RECURSIVE BodyOldestFirst(_)
BodyOldestFirst(tl) ==
  IF tl = <<>> THEN <<>>
  ELSE SummaryBlock(tl[Len(tl)])
       \o (IF Len(tl) = 1 THEN <<>>
           ELSE NewLine \o BodyOldestFirst(SubSeq(tl, 1, Len(tl) - 1)))

\* C8: the summary body renders one block per timeline entry, each entry
\* once, in the reverse of the timeline order: the text of the body is the
\* blocks of the timeline taken from its last (oldest) entry to its first.
C8_SummaryReversesTimeline ==
  LET tl == currentEntries
  IN /\ Len(summaryOrder(tl)) = Len(tl)
     /\ \A i \in 1..Len(tl) : summaryOrder(tl)[i] = tl[Len(tl) + 1 - i]
     /\ summaryBody = BodyOldestFirst(tl)

\* C8 witness: a summary of two entries whose blocks differ.
C8_Witness ==
  /\ pc = "idle"
  /\ ~IsUndefined(currentClient)
  /\ Len(currentEntries) = 2
  /\ SummaryBlock(currentEntries[1]) # SummaryBlock(currentEntries[2])
  /\ TimeOf(currentEntries[1]) > TimeOf(currentEntries[2])

Bp13080 == <<"1", "3", "0", "/", "8", "0">>

\* C9: from a store with the one client A and no entry, addEntry with the
\* ciwa text "16" and the bp text "130/80", the other fields empty, gives a
\* timeline of exactly one entry with ciwa 16, classified escalate, and a
\* summary that contains "BP 130/80" and "CIWA: 16" and no "Meds:".
C9_EndToEnd ==
  [][(/\ Len(clients.a) = 1
      /\ Prop(clients.a[1], "name") = Str(<<"A">>)
      /\ entries.a = <<>>
      /\ ciwa = <<"1", "6">>
      /\ bp = Bp13080
      /\ hr = EmptyText /\ meds = EmptyText /\ notes = EmptyText
      /\ \E now \in Instants : ClickSaveEntry(now)) =>
       LET tl == currentEntriesOf(entries', selectedClientId')
       IN /\ Len(tl) = 1
          /\ Prop(tl[1], "ciwa") = Num(1600)
          /\ getCiwaChip(Prop(tl[1], "ciwa")) = "escalate"
          /\ \A t \in Instants :
               LET text == summaryTextOf(clients', entries', selectedClientId', t)
               IN /\ Contains(text, <<"B", "P", " ">> \o Bp13080)
                  /\ Contains(text, <<"C", "I", "W", "A", ":", " ", "1", "6">>)
                  /\ ~Contains(text, <<"M", "e", "d", "s", ":">>)]_vars

\* C9 witness: the entry of that scenario is stored for client A.
C9_Witness ==
  /\ last = "addEntry" /\ pc = "save"
  /\ Len(clients.a) = 1 /\ Prop(clients.a[1], "name") = Str(<<"A">>)
  /\ Len(currentEntries) = 1
  /\ Prop(currentEntries[1], "ciwa") = Num(1600)
  /\ Prop(currentEntries[1], "bp") = Str(Bp13080)
  /\ IsUndefined(Prop(currentEntries[1], "hr"))
  /\ IsUndefined(Prop(currentEntries[1], "meds"))
  /\ IsUndefined(Prop(currentEntries[1], "notes"))

\* the number each ciwa text of the model denotes, null for a text that is
\* empty, blank or no number ("Infinity" is a numeric string of JavaScript)
ExpectedCiwa(text) ==
  CASE text = <<"1", "6">> -> Num(1600)
    [] text = <<" ", "9", ".", "9", "9">> -> Num(999)
    [] text = <<"-", "3">> -> Num(-300)
    [] text = <<"0">> -> Num(0)
    [] text = InfinityText -> PosInf
    [] text = <<"1", "6", "x">> -> Null
    [] text = <<" ">> -> Null
    [] text = EmptyText -> Null

\* C10: addEntry stores, for a ciwa text that is a numeric string, the
\* number it denotes, and null for an empty, blank or non-numeric text; the
\* entry is stored in either case.
C10_CiwaParsing ==
  [][(\E now \in Instants : ClickSaveEntry(now)) =>
       /\ Len(entries'.a) = Len(entries.a) + 1
       /\ Prop(entries'.a[1], "ciwa") = ExpectedCiwa(ciwa)]_vars

\* C10 witness: the text " 9.99" has been stored as the number 9.99.
C10_Witness ==
  /\ last = "addEntry" /\ pc = "save"
  /\ Len(entries.a) = 1
  /\ Prop(entries.a[1], "ciwa") = Num(999)

\* C11: the chip of an entry's ciwa is none for an absent (null or undefined)
\* ciwa and otherwise exactly one of escalate, watch and normal: escalate
\* iff ciwa >= 15, watch iff 10 <= ciwa < 15, normal iff ciwa < 10 (0 and
\* the negative numbers included); 9.99 is normal, 10 and 14.99 are watch,
\* 15 is escalate.
C11_ChipThresholds ==
  /\ \A i \in 1..Len(entries.a) :
       LET c == Prop(entries.a[i], "ciwa")
           chip == getCiwaChip(c)
       IN /\ (IsNull(c) \/ IsUndefined(c)) <=> chip = "none"
          /\ IsFinite(c) =>
               /\ chip \in {"escalate", "watch", "normal"}
               /\ chip = "escalate" <=> c.n >= 1500
               /\ chip = "watch" <=> (1000 <= c.n /\ c.n < 1500)
               /\ chip = "normal" <=> c.n < 1000
  /\ getCiwaChip(Null) = "none" /\ getCiwaChip(Undefined) = "none"
  /\ getCiwaChip(Num(999)) = "normal" /\ getCiwaChip(Num(1000)) = "watch"
  /\ getCiwaChip(Num(1499)) = "watch" /\ getCiwaChip(Num(1500)) = "escalate"

\* C11 witness: an entry with the ciwa 10, typed as "10", is stored and its
\* chip is watch.
C11_Witness ==
  /\ last = "addEntry"
  /\ Len(entries.a) = 1
  /\ Prop(entries.a[1], "ciwa") = Num(1000)
  /\ getCiwaChip(Prop(entries.a[1], "ciwa")) = "watch"

\* the value the state holds for a top-level key of the blob
StateOf(k) ==
  CASE k = "clients" -> clients
    [] k = "entries" -> entries
    [] k = "selectedClientId" -> selectedClientId

\* a clients or entries that is a list, a selectedClientId that is a text
HasDeclaredType(k, v) == IF k = "selectedClientId" THEN IsString(v) ELSE v.t = "array"

\* C12: for a stored item that parses to an object, the load effect queues
\* each of clients, entries and selectedClientId on its own: a field that is
\* present (with a value of its declared type) becomes the state's value, a
\* field that is missing is not touched and keeps its default; the render
\* that follows applies exactly the queued fields. A blob without entries
\* loads its clients and its selectedClientId and leaves entries empty.
C12_LoadFieldByField ==
  [][/\ (LoadEffect /\ storage # NoItem /\ Parses(storage) /\ storage.json.t = "object") =>
          \A k \in StoreKeys :
            LET doc == storage.json.o
            IN /\ (k \in DOMAIN doc /\ HasDeclaredType(k, doc[k])) =>
                    Applied(queue', k, StateOf(k)) = doc[k]
               /\ k \notin DOMAIN doc => k \notin DOMAIN queue'
     /\ Render =>
          \A k \in StoreKeys :
            StateOf(k)' = IF k \in DOMAIN queue THEN queue[k] ELSE StateOf(k)]_vars

\* C12 witness: a session has loaded a blob without entries: its client and
\* its selection are in the state, entries is the empty default.
C12_Witness ==
  /\ last = "mount" /\ pc = "idle"
  /\ clients = Arr(<<ForeignClient>>)
  /\ selectedClientId = Prop(ForeignClient, "id")
  /\ entries = Arr(<<>>)

\* C13: whatever item the session starts on, the page is never gone: the
\* load raises nothing and every later render and handler runs.
C13_MalformedBlobHarmless == pc # "crashed"

\* C16: the summary is the empty text exactly when no client of the store
\* has the id selectedClientId, whatever clientId the stored entries carry;
\* when a client has it, the summary is not empty and its header line names
\* the first such client.
C16_SummaryEmptyIffNoCurrentClient ==
  pc # "crashed" =>
    \A t \in Instants :
      LET text == generateSummaryText(t)
          Matches(c) == Prop(c, "id") = selectedClientId
          matching == SelectSeq(clients.a, Matches)
      IN /\ text = <<>> <=> matching = <<>>
         /\ matching # <<>> =>
              Contains(text, NewLine \o <<"C", "l", "i", "e", "n", "t", ":", " ">>
                             \o ToText(Prop(matching[1], "name")) \o NewLine)

\* C16 witness: the selection is an id no client has, an entry carries it,
\* and the summary is empty.
C16_Witness ==
  /\ pc = "idle"
  /\ selectedClientId = Prop(ForeignClient, "id")
  /\ \A i \in 1..Len(clients.a) : Prop(clients.a[i], "id") # selectedClientId
  /\ \E i \in 1..Len(entries.a) : Prop(entries.a[i], "clientId") = selectedClientId
  /\ generateSummaryText(0) = <<>>

\* C14: a save whose write has failed leaves the page running, the state
\* as the mutation left it.
C14_WriteFailureNonFatal == last = "setItem.throws" => pc # "crashed"

\* C15 as stated: the summary of a state is the same text at every clock
\* reading.
C15_SummaryDeterministic ==
  \A t1, t2 \in Instants : generateSummaryText(t1) = generateSummaryText(t2)

\* C15, amended: the summary is the same text for the same client, the same
\* timeline and clock readings of the same minute (here 00:00:00 and
\* 00:00:30), whatever else the store holds: the text made from the whole
\* store is the text made from a store of the current client and the
\* entries of the timeline alone.
C15_SummaryDeterministicPerMinute ==
  LET client == currentClient
      alone == IF IsUndefined(client) THEN Arr(<<>>) ELSE Arr(<<client>>)
  IN summaryTextOf(clients, entries, selectedClientId, 0)
       = summaryTextOf(alone, Arr(currentEntries), selectedClientId, 30000)

\* C15 witness: a summary with an entry for the selected one of two clients.
C15_Witness ==
  /\ pc = "idle"
  /\ Len(clients.a) = 2
  /\ ~IsUndefined(currentClient)
  /\ Len(currentEntries) = 1
  /\ generateSummaryText(0) # <<>>

\* what each text of the model is once trimmed: a text, or nothing
ExpectedField(text) ==
  CASE text = Bp13080 -> Str(Bp13080)
    [] text = <<" ", "7", "2">> -> Str(<<"7", "2">>)
    [] text = <<"L", "z">> -> Str(<<"L", "z">>)
    [] text = <<" ">> -> Undefined
    [] text = EmptyText -> Undefined

\* C17: addEntry with a selectedClientId that is not empty puts exactly one
\* new entry before all stored entries, which stay as they were and in
\* their order; the entry has the selected id for its clientId and, for
\* each of bp, hr, meds and notes, the trimmed input, or nothing (never the
\* empty text) when the trimmed input is empty; the five inputs of the form
\* are empty afterwards and clients and selectedClientId are unchanged.
\* With an empty selectedClientId addEntry changes nothing.
C17_AddEntryFrame ==
  [][(\E now \in Instants : addEntry(now)) =>
       IF selectedClientId # Str(EmptyText)
       THEN LET new == entries'.a[1]
            IN /\ Len(entries'.a) = Len(entries.a) + 1
               /\ Tail(entries'.a) = entries.a
               /\ \A i \in 1..Len(entries.a) : Prop(entries.a[i], "id") # Prop(new, "id")
               /\ Prop(new, "clientId") = selectedClientId
               /\ Prop(new, "bp") = ExpectedField(bp)
               /\ Prop(new, "hr") = ExpectedField(hr)
               /\ Prop(new, "meds") = ExpectedField(meds)
               /\ Prop(new, "notes") = ExpectedField(notes)
               /\ \A k \in {"bp", "hr", "meds", "notes"} : Prop(new, k) # Str(EmptyText)
               /\ bp' = EmptyText /\ hr' = EmptyText /\ ciwa' = EmptyText
               /\ meds' = EmptyText /\ notes' = EmptyText
               /\ UNCHANGED <<clients, selectedClientId>>
       ELSE UNCHANGED <<storeVars, formVars, storage, queue, pc>>]_vars

\* C17 witness: addEntry has put a second entry, its hr " 72" trimmed and
\* its blank notes left out, before the first one and emptied the form.
C17_Witness ==
  /\ last = "addEntry" /\ pc = "save"
  /\ Len(entries.a) = 2
  /\ Prop(entries.a[1], "hr") = Str(<<"7", "2">>)
  /\ IsUndefined(Prop(entries.a[1], "notes"))
  /\ Prop(entries.a[1], "id") # Prop(entries.a[2], "id")
  /\ bp = EmptyText /\ hr = EmptyText /\ ciwa = EmptyText
  /\ meds = EmptyText /\ notes = EmptyText

\* the content line the claim describes for an entry: the parts of the
\* fields the entry has, BP, HR, Meds, Notes, CIWA in this order, with
\* " | " between them, the vitals headed by "Vitals: "
ExpectedLine(e) ==
  LET Has(k) == ~IsUndefined(Prop(e, k))
      Part(k, label) == IF Has(k) THEN label \o ToText(Prop(e, k)) ELSE <<>>
      ciwaPart == IF IsNumber(Prop(e, "ciwa"))
                  THEN <<"C", "I", "W", "A", ":", " ">> \o ToText(Prop(e, "ciwa")) ELSE <<>>
      NonEmpty(part) == part # <<>>
      parts == SelectSeq(<<Part("bp", <<"B", "P", " ">>),
                           Part("hr", <<"H", "R", " ">>),
                           Part("meds", <<"M", "e", "d", "s", ":", " ">>),
                           Part("notes", <<"N", "o", "t", "e", "s", ":", " ">>),
                           ciwaPart>>, NonEmpty)
  IN (IF Has("bp") \/ Has("hr") THEN <<"V", "i", "t", "a", "l", "s", ":", " ">> ELSE <<>>)
     \o Join(parts, BarSep)

\* C18: the block of every stored entry is its time line followed by a
\* content line made of exactly the parts the entry has, in the order
\* vitals (BP, HR), Meds, Notes, CIWA, joined by " | ": BP iff bp is present,
\* HR iff hr is, "Meds: " iff meds is, "Notes: " iff notes is, "CIWA: " iff
\* ciwa is a number (0 too, null not).
C18_BlockParts ==
  \A i \in 1..Len(entries.a) :
    LET e == entries.a[i]
        block == SummaryBlock(e)
        Has(k) == ~IsUndefined(Prop(e, k))
    IN /\ block = formatTime(Prop(e, "timestamp")) \o NewLine \o ExpectedLine(e) \o NewLine
       /\ Contains(block, <<"B", "P", " ">>) <=> Has("bp")
       /\ Contains(block, <<"H", "R", " ">>) <=> Has("hr")
       /\ Contains(block, <<"M", "e", "d", "s", ":", " ">>) <=> Has("meds")
       /\ Contains(block, <<"N", "o", "t", "e", "s", ":", " ">>) <=> Has("notes")
       /\ Contains(block, <<"C", "I", "W", "A", ":", " ">>) <=> IsNumber(Prop(e, "ciwa"))

\* C18 witness: an entry with a bp, no hr, a meds, no notes and the ciwa 0,
\* rendered as "Vitals: BP 130/80 | Meds: Lz | CIWA: 0".
C18_Witness ==
  /\ Len(entries.a) = 1
  /\ Prop(entries.a[1], "ciwa") = Num(0)
  /\ IsUndefined(Prop(entries.a[1], "hr")) /\ IsUndefined(Prop(entries.a[1], "notes"))
  /\ Contains(SummaryBlock(entries.a[1]),
              NewLine \o <<"V", "i", "t", "a", "l", "s", ":", " ", "B", "P", " ">> \o Bp13080
              \o BarSep \o <<"M", "e", "d", "s", ":", " ", "L", "z">>
              \o BarSep \o <<"C", "I", "W", "A", ":", " ", "0">> \o NewLine)

\* C19: rendering the page, which computes the timeline and the summary,
\* leaves the store as the step before it made it. A step in which no
\* handler updates the store (the user types into an input, or clicks to no
\* effect) leaves clients, entries (the stored order included) and
\* selectedClientId as they were, and the timeline computed after it is the
\* timeline computed before it; after a handler that updates the store the
\* entries are the stored ones, in their order, behind at most one new
\* entry; after the load they are the loaded ones in their stored order.
C19_ViewsLeaveStore ==
  [][/\ (pc = "idle" /\ pc' = "idle") =>
          /\ UNCHANGED storeVars
          /\ currentEntriesOf(entries', selectedClientId') = currentEntries
     /\ (pc = "idle" /\ pc' = "save") =>
          \/ entries' = entries
          \/ /\ entries'.a # <<>>
             /\ Tail(entries'.a) = entries.a
             /\ UNCHANGED <<clients, selectedClientId>>
     /\ pc = "render" =>
          /\ clients' = Applied(queue, "clients", clients)
          /\ entries' = Applied(queue, "entries", entries)
          /\ selectedClientId' = Applied(queue, "selectedClientId", selectedClientId)]_vars

\* C19 witness: the page has rendered again (a bp is typed) over two entries
\* of the selected client that are stored in another order than the
\* timeline shows them.
C19_Witness ==
  /\ pc = "idle"
  /\ bp = Bp13080
  /\ Len(entries.a) = 2
  /\ Len(currentEntries) = 2
  /\ currentEntries[1] = entries.a[2]
  /\ currentEntries # entries.a

\* C20: from the start of a session until the first click of the user, no
\* step changes the clients, the entries or the selectedClientId of the
\* stored item the session has found.
C20_StartupKeepsBlob ==
  [][(last = "mount" /\ last' = "mount" /\ storage # NoItem) =>
       /\ storage' # NoItem
       /\ \A k \in StoreKeys : Prop(storage'.json, k) = Prop(storage.json, k)]_vars

====
